---------------------------- MODULE Spec2Model ----------------------------
(***************************************************************************)
(* A model of clusterImages.py (Pix-Plot-Image-Analysis): the helper       *)
(* functions get_selected_images, get_page_nr, get_doc_title,              *)
(* get_filename and validate_result, and the script body (the __main__     *)
(* block) from the resolution of the clusters of interest to the user      *)
(* hotspot pass.                                                           *)
(*                                                                         *)
(* Representation.                                                         *)
(*   - A Python str is a sequence of one-character strings, so that the    *)
(*     regular expressions and the f-string are computed, not assumed.     *)
(*   - A Python scalar is a tagged record: None, NaN, I(n) (an int),       *)
(*     F(n) (a float of integral value n), S(chars) (a str).               *)
(*   - A DataFrame is a sequence of rows; a row is a record whose field    *)
(*     idx is the row's index label (the position in the image list) and   *)
(*     whose other fields are the columns.                                 *)
(***************************************************************************)
EXTENDS Integers, Sequences, FiniteSets, TLC

VARIABLES
    pc,                     \* position in the script / in the pure call
    error,                  \* the uncaught exception that ended the run, or "none"
    hotspot,                \* rows [label, images] of hotspot-<uuid>.json
    imagelist,              \* DataFrame imagelist
    cluster_of_interest,    \* list of labels
    image_selected,         \* DataFrame image_selected
    n_pages,                \* DataFrame n_pages: rows [doc_title, nr_of_pages]
    image_selected_last,    \* DataFrame image_selected_last
    image_between_selected, \* DataFrame image_between_selected
    groups,                 \* document titles the outer for loop has still to visit
    name,                   \* loop variable name (the current document title)
    group,                  \* loop variable group (sorted by page_nr)
    row_i,                  \* position of the inner for loop in group (1-based)
    page_nr_last,           \* loop state of the gap detection
    page_nr,                \* counter of the while loop
    image_selected_sample,  \* DataFrame image_selected_sample
    image_sample,           \* DataFrame image_sample
    to_be_selected_txt,     \* what read_table found: [status, rows]
    user_image_selected,    \* DataFrame user_image_selected
    user_image_selected_sample, \* DataFrame user_image_selected_sample
    rng_draws,              \* population size of every random.sample so far
    console,                \* what print() wrote, in order
    folders,                \* destination directory -> set of copied filenames
    exports,                \* csv file -> the rows written
    call,                   \* the arguments of a pure call under test
    ret                     \* its return value

vars == <<pc, error, hotspot, imagelist, cluster_of_interest, image_selected,
          n_pages, image_selected_last, image_between_selected, groups, name,
          group, row_i, page_nr_last, page_nr, image_selected_sample,
          image_sample, to_be_selected_txt, user_image_selected,
          user_image_selected_sample, rng_draws, console, folders, exports,
          call, ret>>

-----------------------------------------------------------------------------
(* Python scalars *)

None == [t |-> "None"]

NaN == [t |-> "nan"]

I(n) == [t |-> "int", v |-> n]

F(n) == [t |-> "float", v |-> n]

S(chars) == [t |-> "str", v |-> chars]

IsNumber(x) == x.t \in {"int", "float"}

\* bool(x) of a scalar: None, 0 and 0.0 are falsy; nan and every other number is truthy
Truthy(x) ==
    CASE x.t = "None" -> FALSE
      [] x.t = "nan" -> TRUE
      [] x.t \in {"int", "float"} -> x.v # 0
      [] x.t = "str" -> x.v # <<>>

\* x == y on numbers: nan equals nothing, an int equals the float of its value
NumEq(x, y) == IsNumber(x) /\ IsNumber(y) /\ x.v = y.v

\* x + 1
PlusOne(x) ==
    CASE x.t = "int" -> I(x.v + 1)
      [] x.t = "float" -> F(x.v + 1)
      [] x.t = "nan" -> NaN

-----------------------------------------------------------------------------
(* Characters and digits *)

Digits == <<"0", "1", "2", "3", "4", "5", "6", "7", "8", "9">>

IsDigit(c) == \E d \in 1..10 : Digits[d] = c

DigitVal(c) == (CHOOSE d \in 1..10 : Digits[d] = c) - 1

RECURSIVE DecimalOf(_)
\* str(n) of a natural number
DecimalOf(n) ==
    IF n < 10 THEN <<Digits[n + 1]>>
    ELSE DecimalOf(n \div 10) \o <<Digits[(n % 10) + 1]>>

SetMin(s) == CHOOSE x \in s : \A y \in s : x <= y

SetMax(s) == CHOOSE x \in s : \A y \in s : x >= y

-----------------------------------------------------------------------------
(* get_page_nr: re.search(r'[0-9]{3}.jpg', filename).group()[:3] as int *)

\* the pattern [0-9]{3}.jpg matches at position i of f ('.' is any character but a newline)
PageNrMatchesAt(f, i) ==
    /\ i + 6 <= Len(f)
    /\ IsDigit(f[i]) /\ IsDigit(f[i + 1]) /\ IsDigit(f[i + 2])
    /\ f[i + 3] # "\n"
    /\ f[i + 4] = "j" /\ f[i + 5] = "p" /\ f[i + 6] = "g"

\* re.search of a filename that is no str raises, and the except returns None
get_page_nr(filename) ==
    IF filename.t # "str" THEN None
    ELSE LET f == filename.v
             at == {i \in 1..Len(f) : PageNrMatchesAt(f, i)}
         IN  IF at = {} THEN None
             ELSE LET i == SetMin(at)
                  IN  I(100 * DigitVal(f[i]) + 10 * DigitVal(f[i + 1])
                        + DigitVal(f[i + 2]))

(* get_doc_title: re.search(r'HGB_[0-9]{1}_[0-9]{3}_[0-9]{3}', filename).group() *)

DocTitleLen == 13

DocTitleMatchesAt(f, i) ==
    /\ i + DocTitleLen - 1 <= Len(f)
    /\ f[i] = "H" /\ f[i + 1] = "G" /\ f[i + 2] = "B" /\ f[i + 3] = "_"
    /\ IsDigit(f[i + 4]) /\ f[i + 5] = "_"
    /\ IsDigit(f[i + 6]) /\ IsDigit(f[i + 7]) /\ IsDigit(f[i + 8])
    /\ f[i + 9] = "_"
    /\ IsDigit(f[i + 10]) /\ IsDigit(f[i + 11]) /\ IsDigit(f[i + 12])

get_doc_title(filename) ==
    IF filename.t # "str" THEN None
    ELSE LET f == filename.v
             at == {i \in 1..Len(f) : DocTitleMatchesAt(f, i)}
         IN  IF at = {} THEN None
             ELSE LET i == SetMin(at)
                  IN  S(SubSeq(f, i, i + DocTitleLen - 1))

-----------------------------------------------------------------------------
(* get_filename: f'{doc_title}_{page_nr:03}.jpg', None on any exception *)

\* format(x, '') of a scalar inside an f-string
FormatPlain(x) ==
    CASE x.t = "None" -> <<"N", "o", "n", "e">>
      [] x.t = "nan" -> <<"n", "a", "n">>
      [] x.t = "str" -> x.v
      [] x.t = "int" -> DecimalOf(x.v)
      [] x.t = "float" -> DecimalOf(x.v) \o <<".", "0">>

\* a number's text padded with zeros on the left to a width of 3
ZeroPad3(s) ==
    IF Len(s) >= 3 THEN s
    ELSE [k \in 1..(3 - Len(s)) |-> "0"] \o s

\* a str padded with zeros on the right to a width of 3 (a str is aligned
\* left; the 0 of the format spec is its fill character)
ZeroFill3(s) ==
    IF Len(s) >= 3 THEN s
    ELSE s \o [k \in 1..(3 - Len(s)) |-> "0"]

\* whether format(x, '03') raises: only NoneType rejects the format spec
Format03Raises(x) == x.t = "None"

\* format(x, '03') of a non-negative number or a str
Format03(x) ==
    CASE x.t = "int" -> ZeroPad3(DecimalOf(x.v))
      [] x.t = "float" -> ZeroPad3(DecimalOf(x.v) \o <<".", "0">>)
      [] x.t = "nan" -> <<"n", "a", "n">>
      [] x.t = "str" -> ZeroFill3(x.v)

get_filename(doc_title, pnr) ==
    IF Format03Raises(pnr) THEN None
    ELSE S(FormatPlain(doc_title) \o <<"_">> \o Format03(pnr)
           \o <<".", "j", "p", "g">>)

-----------------------------------------------------------------------------
(* DataFrames *)

\* the sequence s itself, with its elements computed once
Eager(s) == s \o <<>>

\* the values of one column, in row order
Column(df, c) == Eager([k \in 1..Len(df) |-> df[k][c]])

HasColumn(df, c) == \A k \in 1..Len(df) : c \in DOMAIN df[k]

\* pd.DataFrame(imagelist, columns=['filename'])
FrameOfFilenames(files) ==
    Eager([k \in 1..Len(files) |-> [idx |-> k - 1, filename |-> S(files[k])]])

\* whether df.iloc[positions] raises IndexError (a position outside [-n, n-1])
IlocRaises(df, positions) ==
    \E k \in 1..Len(positions) :
        positions[k] >= Len(df) \/ positions[k] < 0 - Len(df)

\* df.iloc[positions]: the rows at the positions, in the order of the positions
Iloc(df, positions) ==
    Eager([k \in 1..Len(positions) |->
        df[(IF positions[k] < 0 THEN Len(df) + positions[k] ELSE positions[k]) + 1]])

RECURSIVE Ascending(_)
\* the integers of a finite set, smallest first
Ascending(s) ==
    IF s = {} THEN <<>>
    ELSE <<SetMin(s)>> \o Ascending(s \ {SetMin(s)})

-----------------------------------------------------------------------------
(* get_selected_images *)

Ok(v) == [raised |-> "none", value |-> v]

Raise(e) == [raised |-> e, value |-> <<>>]

RECURSIVE ImageIndex_SkipUnknown(_, _)
\* variant of the loop: a label that no cluster carries contributes nothing
ImageIndex_SkipUnknown(hs, labels) ==
    IF labels = <<>> THEN Ok(<<>>)
    ELSE LET matching == SelectSeq(hs, LAMBDA c : c.label = Head(labels))
             rest == ImageIndex_SkipUnknown(hs, Tail(labels))
         IN  IF matching = <<>> THEN rest
             ELSE Ok(matching[1].images \o rest.value)

RECURSIVE ImageIndex(_, _)
\* the loop over cluster_of_interest: image_index += <first cluster of that label>.images;
\* .values[0] of no match raises IndexError
ImageIndex(hs, labels) ==
    IF labels = <<>> THEN Ok(<<>>)
    ELSE LET matching == SelectSeq(hs, LAMBDA c : c.label = Head(labels))
         IN  IF matching = <<>> THEN Raise("IndexError")
             ELSE LET rest == ImageIndex(hs, Tail(labels))
                  IN  IF rest.raised # "none" THEN rest
                      ELSE Ok(matching[1].images \o rest.value)

get_selected_images(hs, il, labels) ==
    LET image_index == ImageIndex(hs, labels)
    IN  IF image_index.raised # "none" THEN image_index
        ELSE IF IlocRaises(il, image_index.value) THEN Raise("IndexError")
        ELSE Ok(Iloc(il, image_index.value))

-----------------------------------------------------------------------------
(* validate_result: the outcome is a str (its text kept as one string), or None
   when the lookup of the column 'filename' raises *)

\* filename in df['filename'].values
InFilenames(filename, df) == \E k \in 1..Len(df) : df[k].filename = filename

\* variant of validate_result: the two 'wrong' outcomes change places
validate_result_Swapped(filename, selected, to_be_selected) ==
    IF ~HasColumn(selected, "filename") THEN None
    ELSE IF ~HasColumn(to_be_selected, "filename") THEN None
    ELSE IF InFilenames(filename, selected)
    THEN IF InFilenames(filename, to_be_selected)
         THEN S("correct selected") ELSE S("wrong not selected")
    ELSE IF InFilenames(filename, to_be_selected)
         THEN S("wrong selected") ELSE S("correct not selected")

validate_result(filename, selected, to_be_selected) ==
    IF ~HasColumn(selected, "filename") THEN None
    ELSE IF InFilenames(filename, selected)
    THEN IF ~HasColumn(to_be_selected, "filename") THEN None
         ELSE IF InFilenames(filename, to_be_selected)
              THEN S("correct selected") ELSE S("wrong selected")
    ELSE IF ~HasColumn(to_be_selected, "filename") THEN None
         ELSE IF InFilenames(filename, to_be_selected)
              THEN S("wrong not selected") ELSE S("correct not selected")

-----------------------------------------------------------------------------
(* Inputs *)

\* most indices one cluster of a small clustering result holds
MaxClusterLen == 2

\* most labels of interest passed to a direct call of get_selected_images
MaxLabels == 2

\* most rows of a frame passed to a direct call of validate_result
MaxFrameLen == 2

\* largest small page number passed to a direct call of get_filename
MaxFormatPage == 12

\* most gap records the walk may append before the model stops following it
MaxBetween == 8

TitleA == <<"H", "G", "B", "_", "1", "_", "0", "0", "1", "_", "0", "0", "2">>

TitleB == <<"H", "G", "B", "_", "1", "_", "0", "0", "1", "_", "0", "0", "3">>

\* the image of page p (0..999) of the document of that title
PageFile(title, p) ==
    title \o <<"_", Digits[(p \div 100) + 1], Digits[((p \div 10) % 10) + 1],
               Digits[(p % 10) + 1], ".", "j", "p", "g">>

\* a file with a document title and no page number
TitleOnlyFile(title) == title \o <<".", "p", "n", "g">>

\* a file with neither
NoiseFile == <<"n", "o", "i", "s", "e", ".", "p", "n", "g">>

\* a file with a page number and no document title
ScanFile == <<"s", "c", "a", "n", "_", "0", "1", "2", ".", "j", "p", "g">>

\* all sequences over s of length 0..n
SeqsUpTo(s, n) == UNION {[1..k -> s] : k \in 0..n}

Labels == {"Cluster 7", "Cluster 8", "Cluster 9"}

\* image lists: one document of five pages; two documents and files that do not parse
CorpusA == <<PageFile(TitleA, 0), PageFile(TitleA, 1), PageFile(TitleA, 2),
             PageFile(TitleA, 3), PageFile(TitleA, 4)>>

CorpusB == <<PageFile(TitleA, 1), PageFile(TitleA, 3), TitleOnlyFile(TitleA),
             PageFile(TitleB, 2), NoiseFile>>

\* one document with pages 1, 2 and 5: pages 3 and 4 have no image
CorpusC == <<PageFile(TitleA, 1), PageFile(TitleA, 2), PageFile(TitleA, 5)>>

\* clustering results of two clusters over an image list of n images: the
\* first cluster holds up to MaxClusterLen indices, the second at most one;
\* the index n lies outside the image list
Hotspots(n, labelPairs) ==
    {<<[label |-> lp[1], images |-> a], [label |-> lp[2], images |-> b]>> :
        lp \in labelPairs,
        a \in SeqsUpTo(0..n, MaxClusterLen),
        b \in SeqsUpTo(0..n, 1)}

-----------------------------------------------------------------------------
(* Direct calls of the helper functions *)

\* to_be_selected_txt before line 249 runs
NotRead == [status |-> "not read", rows |-> <<>>]

Idle ==
    /\ error = "none"
    /\ hotspot = <<>> /\ imagelist = <<>> /\ cluster_of_interest = <<>>
    /\ image_selected = <<>> /\ n_pages = <<>> /\ image_selected_last = <<>>
    /\ image_between_selected = <<>> /\ groups = <<>> /\ name = None
    /\ group = <<>> /\ row_i = 0 /\ page_nr_last = None /\ page_nr = None
    /\ image_selected_sample = <<>> /\ image_sample = <<>>
    /\ to_be_selected_txt = NotRead /\ rng_draws = <<>>
    /\ user_image_selected = <<>> /\ user_image_selected_sample = <<>>
    /\ console = <<>> /\ folders = <<>>
    /\ exports = <<>>

scriptVars == <<error, hotspot, imagelist, cluster_of_interest, image_selected,
                n_pages, image_selected_last, image_between_selected, groups,
                name, group, row_i, page_nr_last, page_nr,
                image_selected_sample, image_sample, to_be_selected_txt,
                user_image_selected, user_image_selected_sample, rng_draws,
                console, folders, exports>>

NotCalled == [t |-> "not called"]

\* get_selected_images(hotspot, imagelist, cluster_of_interest)
InitResolve ==
    /\ Idle
    /\ pc = "call"
    /\ ret = NotCalled
    /\ \E files \in {CorpusA} :
       \E hs \in Hotspots(Len(files), {<<"Cluster 8", "Cluster 9">>,
                                       <<"Cluster 8", "Cluster 8">>}) :
       \E labels \in SeqsUpTo(Labels, MaxLabels) :
           call = [fn |-> "get_selected_images", hotspot |-> hs,
                   imagelist |-> FrameOfFilenames(files),
                   cluster_of_interest |-> labels]

CallGetSelectedImages ==
    /\ pc = "call" /\ call.fn = "get_selected_images"
    /\ ret' = get_selected_images(call.hotspot, call.imagelist,
                                  call.cluster_of_interest)
    /\ pc' = "returned"
    /\ UNCHANGED <<scriptVars, call>>

NextResolve == CallGetSelectedImages

SpecResolve == InitResolve /\ [][NextResolve]_vars

\* get_filename(doc_title, page_nr), get_page_nr(filename), get_doc_title(filename)
FormatTitles == {S(TitleA), S(TitleB), None}

FormatPages ==
    {I(p) : p \in (0..MaxFormatPage) \cup {99, 100, 999, 1000}}
    \cup {F(p) : p \in {0, 3, 12, 100}} \cup {None, NaN}

\* page numbers passed as text
FormatTextPages ==
    {S(<<>>), S(<<"7">>), S(<<"a", "b">>), S(<<"a", "b", "c", "d">>)}

ParsedFiles ==
    {PageFile(t, p) : t \in {TitleA, TitleB}, p \in (0..MaxFormatPage) \cup {99, 100, 999}}
    \cup {TitleOnlyFile(TitleA), NoiseFile, ScanFile}

InitFilename ==
    /\ Idle
    /\ pc = "call"
    /\ ret = NotCalled
    /\ \/ \E t \in FormatTitles, p \in FormatPages :
              call = [fn |-> "get_filename", doc_title |-> t, page_nr |-> p]
       \/ \E t \in FormatTitles, p \in FormatTextPages :
              call = [fn |-> "get_filename", doc_title |-> t, page_nr |-> p]
       \/ \E f \in ParsedFiles, fn \in {"get_page_nr", "get_doc_title"} :
              call = [fn |-> fn, filename |-> S(f)]

CallGetFilename ==
    /\ pc = "call" /\ call.fn = "get_filename"
    /\ ret' = get_filename(call.doc_title, call.page_nr)
    /\ pc' = "returned"
    /\ UNCHANGED <<scriptVars, call>>

CallGetPageNr ==
    /\ pc = "call" /\ call.fn = "get_page_nr"
    /\ ret' = get_page_nr(call.filename)
    /\ pc' = "returned"
    /\ UNCHANGED <<scriptVars, call>>

CallGetDocTitle ==
    /\ pc = "call" /\ call.fn = "get_doc_title"
    /\ ret' = get_doc_title(call.filename)
    /\ pc' = "returned"
    /\ UNCHANGED <<scriptVars, call>>

NextFilename == CallGetFilename \/ CallGetPageNr \/ CallGetDocTitle

SpecFilename == InitFilename /\ [][NextFilename]_vars

\* validate_result(filename, image_selected, to_be_selected)
ValidateFiles == {PageFile(TitleA, 1), PageFile(TitleA, 2), NoiseFile}

ValidateFrames ==
    {[k \in 1..Len(q) |-> [filename |-> S(q[k])]] :
        q \in SeqsUpTo(ValidateFiles, MaxFrameLen)}

InitValidate ==
    /\ Idle
    /\ pc = "call"
    /\ ret = NotCalled
    /\ \E f \in ValidateFiles \cup {PageFile(TitleB, 7)} :
       \E sel \in ValidateFrames, gt \in ValidateFrames :
           call = [fn |-> "validate_result", filename |-> S(f),
                   image_selected |-> sel, to_be_selected |-> gt]

CallValidateResult ==
    /\ pc = "call" /\ call.fn = "validate_result"
    /\ ret' = validate_result(call.filename, call.image_selected,
                              call.to_be_selected)
    /\ pc' = "returned"
    /\ UNCHANGED <<scriptVars, call>>

NextValidate == CallValidateResult

SpecValidate == InitValidate /\ [][NextValidate]_vars

-----------------------------------------------------------------------------
(* The script: column helpers *)

\* number of images random.sample draws (lines 218, 229, 241, 279)
SampleSize == 1000

\* a column built from per-row scalars (Series construction): all int gives
\* int64, all None gives object, a mix gives float64 with None turned to nan
NumericColumn(vals) ==
    IF \A k \in 1..Len(vals) : vals[k].t = "int" THEN vals
    ELSE IF \A k \in 1..Len(vals) : vals[k].t = "None" THEN vals
    ELSE Eager([k \in 1..Len(vals) |->
            IF vals[k].t \in {"int", "float"} THEN F(vals[k].v) ELSE NaN])

\* df[c] = vals
WithColumn(df, c, vals) == Eager([k \in 1..Len(df) |-> (c :> vals[k]) @@ df[k]])

\* df['doc_title'] = df.apply(get_doc_title(row['filename']));
\* df['page_nr'] = df.apply(get_page_nr(row['filename']))
Annotate(df) ==
    LET titles == Eager([k \in 1..Len(df) |-> get_doc_title(df[k].filename)])
        pages == NumericColumn(
                     Eager([k \in 1..Len(df) |-> get_page_nr(df[k].filename)]))
    IN  WithColumn(WithColumn(df, "doc_title", titles), "page_nr", pages)

\* code points of the characters of a document title
CharCode(c) ==
    CASE IsDigit(c) -> 48 + DigitVal(c)
      [] c = "B" -> 66
      [] c = "G" -> 71
      [] c = "H" -> 72
      [] c = "_" -> 95

\* a < b for two str of the same length (document titles all have DocTitleLen characters)
StrLess(a, b) ==
    \E k \in 1..Len(a) :
        /\ CharCode(a[k]) < CharCode(b[k])
        /\ \A j \in 1..(k - 1) : a[j] = b[j]

\* the keys of df.groupby('doc_title'), ascending; rows whose title is None form no group
GroupKeys(df) ==
    LET keys == {df[k].doc_title.v : k \in {j \in 1..Len(df) : df[j].doc_title.t = "str"}}
        rank(x) == Cardinality({y \in keys : StrLess(y, x)}) + 1
    IN  Eager([r \in 1..Cardinality(keys) |-> CHOOSE x \in keys : rank(x) = r])

\* the rows of one group, in the order of the frame
GroupRows(df, title) ==
    SelectSeq(df, LAMBDA row : row.doc_title.t = "str" /\ row.doc_title.v = title)

\* max() of a numeric column of one group: nan is skipped, no number gives nan
ColumnMax(vals) ==
    LET nums == {k \in 1..Len(vals) : IsNumber(vals[k])}
    IN  IF nums = {} THEN NaN
        ELSE LET m == SetMax({vals[k].v : k \in nums})
             IN  IF \E k \in nums : vals[k].t = "float" THEN F(m) ELSE I(m)

\* pd.DataFrame({'nr_of_pages': imagelist.groupby('doc_title')['page_nr'].max()})
NumberOfPages(il) ==
    LET keys == GroupKeys(il)
    IN  Eager([r \in 1..Len(keys) |->
            [doc_title |-> S(keys[r]),
             nr_of_pages |-> ColumnMax(Column(GroupRows(il, keys[r]), "page_nr"))]])

\* the value joined to one row: the document's entry, nan when it has none
Lookup(np, title) ==
    IF title.t = "str" /\ \E r \in 1..Len(np) : np[r].doc_title = title
    THEN np[CHOOSE r \in 1..Len(np) : np[r].doc_title = title].nr_of_pages
    ELSE NaN

\* image_selected.join(n_pages, on='doc_title')
JoinPages(df, np) ==
    WithColumn(df, "nr_of_pages",
               NumericColumn(Eager([k \in 1..Len(df) |-> Lookup(np, df[k].doc_title)])))

\* image_selected[image_selected['page_nr'] == image_selected['nr_of_pages']]
\* variant of the filter: the last SELECTED page of each document
LastPages_OfSelection(df) ==
    SelectSeq(df, LAMBDA row :
        /\ IsNumber(row.page_nr)
        /\ \A k \in 1..Len(df) :
              (df[k].doc_title = row.doc_title /\ IsNumber(df[k].page_nr))
                  => df[k].page_nr.v <= row.page_nr.v)

LastPages(df) == SelectSeq(df, LAMBDA row : NumEq(row.page_nr, row.nr_of_pages))

\* group.sort_values('page_nr'): ascending, rows without a number last; rows of
\* equal page number are kept in frame order (the walk reads page_nr only)
SortByPageNr(df) ==
    LET n == Len(df)
        before(i, j) ==
            IF IsNumber(df[i].page_nr)
            THEN IF IsNumber(df[j].page_nr)
                 THEN df[i].page_nr.v < df[j].page_nr.v
                      \/ (df[i].page_nr.v = df[j].page_nr.v /\ i < j)
                 ELSE TRUE
            ELSE ~IsNumber(df[j].page_nr) /\ i < j
        rank == Eager([i \in 1..n |-> Cardinality({j \in 1..n : before(j, i)}) + 1])
        at == Eager([r \in 1..n |-> CHOOSE i \in 1..n : rank[i] = r])
    IN  Eager([r \in 1..n |-> df[at[r]]])

-----------------------------------------------------------------------------
(* The script: files *)

SelectedLastDir == "selected_last_page"

BetweenSelectedDir == "between_selected"

SelectedSampleDir == "selected_sample"

RandomSampleDir == "random_sample"

SelectedSampleUserDir == "selected_sample_user"

Destinations == {SelectedLastDir, BetweenSelectedDir, SelectedSampleDir,
                 RandomSampleDir, SelectedSampleUserDir}

\* the directory <path_output>/originals holds pixplot's copies of the images
\* of the image list
Originals(il) == {il[k].filename : k \in 1..Len(il)}

\* whether df.apply(copy_image(row['filename'], ...)) raises: glob finds no file
\* of that name and [0] raises IndexError; a filename that is None matches none
CopyRaises(df, il) == ~({df[k].filename : k \in 1..Len(df)} \subseteq Originals(il))

\* the rows df.apply(copy_image(...)) has handled when it ends: all of them,
\* or those before the first row whose file is missing
CopiedRows(df, il) ==
    IF CopyRaises(df, il)
    THEN SubSeq(df, 1, SetMin({k \in 1..Len(df) :
                                  df[k].filename \notin Originals(il)}) - 1)
    ELSE df

\* the destination directory after the copies of those rows
CopyAll(fs, dest, df) ==
    [fs EXCEPT ![dest] = @ \cup {df[k].filename : k \in 1..Len(df)}]

\* df.apply(copy_image(...)) into dest: the copies made, then either the
\* IndexError of the first missing file or the step that follows
Copy(dest, df, il, next) ==
    IF CopyRaises(df, il)
    THEN /\ folders' = CopyAll(folders, dest, CopiedRows(df, il))
         /\ pc' = "aborted" /\ error' = "IndexError"
    ELSE /\ folders' = CopyAll(folders, dest, df)
         /\ pc' = next /\ UNCHANGED error

-----------------------------------------------------------------------------
(* The script: identify selected images, first page, last page (lines 128-174) *)

\* the image list of a large run: pages 000..999 of one document
BigCorpus == Eager([k \in 1..SampleSize |-> PageFile(TitleA, k - 1)])

\* its clustering results: one cluster of all images, or two halves
BigHotspots ==
    LET n == Len(BigCorpus)
        h == n \div 2
    IN  {<<[label |-> "Cluster 8", images |-> Eager([k \in 1..n |-> k - 1])],
           [label |-> "Cluster 9", images |-> <<>>]>>,
         <<[label |-> "Cluster 8", images |-> Eager([k \in 1..h |-> k - 1])],
           [label |-> "Cluster 9",
            images |-> Eager([k \in 1..(n - h) |-> h + k - 1])]>>}

\* the image list of a run with a long gap: pages 0..MaxBetween + 4 of one
\* document
LongGapCorpus == Eager([k \in 1..(MaxBetween + 5) |-> PageFile(TitleA, k - 1)])

\* its clustering results: page 1 and the last page, the last page once or
\* twice
LongGapHotspots ==
    LET last == Len(LongGapCorpus) - 1
    IN  {<<[label |-> "Cluster 8", images |-> <<1, last>>],
           [label |-> "Cluster 9", images |-> b]>> : b \in {<<>>, <<last>>}}

\* the state after the input files are read (line 133)
Init ==
    /\ pc = "identify"
    /\ error = "none"
    /\ cluster_of_interest = <<"Cluster 8", "Cluster 9">>
    /\ \/ \E files \in {CorpusA, CorpusB, CorpusC} :
              /\ imagelist = FrameOfFilenames(files)
              /\ hotspot \in Hotspots(Len(files), {<<"Cluster 8", "Cluster 9">>,
                                                  <<"Cluster 8", "Cluster 7">>})
              \* the clusters hold at least one image
              /\ hotspot[1].images \o hotspot[2].images # <<>>
       \/ /\ imagelist = FrameOfFilenames(BigCorpus)
          /\ hotspot \in BigHotspots
       \/ /\ imagelist = FrameOfFilenames(LongGapCorpus)
          /\ hotspot \in LongGapHotspots
    /\ image_selected = <<>> /\ n_pages = <<>> /\ image_selected_last = <<>>
    /\ image_between_selected = <<>> /\ groups = <<>> /\ name = None
    /\ group = <<>> /\ row_i = 0 /\ page_nr_last = None /\ page_nr = None
    /\ image_selected_sample = <<>> /\ image_sample = <<>>
    /\ to_be_selected_txt = NotRead /\ rng_draws = <<>>
    /\ user_image_selected = <<>> /\ user_image_selected_sample = <<>>
    /\ console = <<>>
    /\ folders = [d \in Destinations |-> {}]
    /\ exports = <<>>
    /\ call = NotCalled /\ ret = NotCalled

\* an uncaught exception ends the run
Abort(e) == pc' = "aborted" /\ error' = e

\* lines 136-151: get_selected_images, the two derived columns, the two prints
IdentifySelectedImages ==
    /\ pc = "identify"
    /\ LET r == get_selected_images(hotspot, imagelist, cluster_of_interest)
       IN  IF r.raised # "none"
           THEN /\ Abort(r.raised)
                /\ UNCHANGED <<image_selected, console>>
           ELSE /\ image_selected' = Annotate(r.value)
                /\ IF Len(imagelist) = 0
                   THEN Abort("ZeroDivisionError") /\ UNCHANGED console
                   ELSE /\ console' = console \o
                             <<[msg |-> "images selected",
                                selected |-> Len(image_selected'),
                                total |-> Len(imagelist)],
                               [msg |-> "first page",
                                count |-> Cardinality(
                                    {k \in 1..Len(image_selected') :
                                        NumEq(image_selected'[k].page_nr, I(1))})]>>
                        /\ pc' = "last_page"
                        /\ UNCHANGED error
    /\ UNCHANGED <<rng_draws, hotspot, imagelist, cluster_of_interest, n_pages,
                   image_selected_last, image_between_selected, groups, name,
                   group, row_i, page_nr_last, page_nr, image_selected_sample,
                   image_sample, to_be_selected_txt, user_image_selected,
                   user_image_selected_sample, folders, exports, call, ret>>

\* lines 159-174: the page count of every document, the join, the last pages
DetectLastPage ==
    /\ pc = "last_page"
    /\ imagelist' = Annotate(imagelist)
    /\ n_pages' = NumberOfPages(imagelist')
    /\ image_selected' = JoinPages(image_selected, n_pages')
    /\ image_selected_last' = LastPages(image_selected')
    /\ Copy(SelectedLastDir, image_selected_last', imagelist, "between")
    /\ UNCHANGED <<rng_draws, hotspot, cluster_of_interest,
                   image_between_selected, groups, name, group, row_i,
                   page_nr_last, page_nr, image_selected_sample, image_sample,
                   to_be_selected_txt, user_image_selected,
                   user_image_selected_sample, console, exports, call, ret>>

-----------------------------------------------------------------------------
(* The script: images lying between selected images (lines 182-221) *)

\* lines 182-185: the empty result frame and the groups of the selection
BeginGapDetection ==
    /\ pc = "between"
    /\ image_between_selected' = <<>>
    /\ groups' = GroupKeys(image_selected)
    /\ pc' = "gap_groups"
    /\ UNCHANGED <<rng_draws, error, hotspot, imagelist, cluster_of_interest,
                   image_selected, n_pages, image_selected_last, name, group,
                   row_i, page_nr_last, page_nr, image_selected_sample,
                   image_sample, to_be_selected_txt, user_image_selected,
                   user_image_selected_sample, console, folders, exports, call,
                   ret>>

\* lines 186-190: the next document, its rows sorted, page_nr_last = None
GapGroupStart ==
    /\ pc = "gap_groups"
    /\ groups # <<>>
    /\ name' = S(Head(groups))
    /\ group' = SortByPageNr(GroupRows(image_selected, Head(groups)))
    /\ groups' = Tail(groups)
    /\ row_i' = 1
    /\ page_nr_last' = None
    /\ pc' = "gap_rows"
    /\ UNCHANGED <<rng_draws, error, hotspot, imagelist, cluster_of_interest,
                   image_selected, n_pages, image_selected_last,
                   image_between_selected, page_nr, image_selected_sample,
                   image_sample, to_be_selected_txt, user_image_selected,
                   user_image_selected_sample, console, folders, exports, call,
                   ret>>

\* lines 191-204: one row of the document; the else branch enters the while loop
GapRow ==
    /\ pc = "gap_rows"
    /\ row_i <= Len(group)
    /\ LET page_nr_current == group[row_i].page_nr
       IN  IF ~Truthy(page_nr_last)
           THEN /\ page_nr_last' = page_nr_current
                /\ row_i' = row_i + 1
                /\ UNCHANGED <<pc, page_nr>>
           ELSE IF NumEq(page_nr_current, PlusOne(page_nr_last))
           THEN /\ page_nr_last' = page_nr_current
                /\ row_i' = row_i + 1
                /\ UNCHANGED <<pc, page_nr>>
           ELSE /\ page_nr' = PlusOne(page_nr_last)
                /\ pc' = "gap_while"
                /\ UNCHANGED <<page_nr_last, row_i>>
    /\ UNCHANGED <<rng_draws, error, hotspot, imagelist, cluster_of_interest,
                   image_selected, n_pages, image_selected_last,
                   image_between_selected, groups, name, group,
                   image_selected_sample, image_sample, to_be_selected_txt,
                   user_image_selected, user_image_selected_sample, console,
                   folders, exports, call, ret>>

\* the counter of the while loop lies below the current page: counting up
\* reaches it
WalkCanEnd ==
    /\ IsNumber(page_nr) /\ IsNumber(group[row_i].page_nr)
    /\ page_nr.v < group[row_i].page_nr.v

\* lines 205-208: page_nr != page_nr_current, one gap record appended. A walk
\* that can end is followed to its end; a walk that cannot is followed while
\* there are fewer than MaxBetween gap records
GapWhileBody ==
    /\ pc = "gap_while"
    /\ ~NumEq(page_nr, group[row_i].page_nr)
    /\ IF WalkCanEnd THEN TRUE
       ELSE Len(image_between_selected) < MaxBetween
    /\ image_between_selected' = Append(image_between_selected,
           [idx |-> Len(image_between_selected), doc_title |-> name,
            page_nr |-> page_nr])
    /\ page_nr' = PlusOne(page_nr)
    /\ UNCHANGED <<rng_draws, pc, error, hotspot, imagelist,
                   cluster_of_interest, image_selected, n_pages,
                   image_selected_last, groups, name, group, row_i,
                   page_nr_last, image_selected_sample, image_sample,
                   to_be_selected_txt, user_image_selected,
                   user_image_selected_sample, console, folders, exports, call,
                   ret>>

\* lines 205, 209: page_nr == page_nr_current ends the while loop
GapWhileExit ==
    /\ pc = "gap_while"
    /\ NumEq(page_nr, group[row_i].page_nr)
    /\ page_nr_last' = group[row_i].page_nr
    /\ row_i' = row_i + 1
    /\ pc' = "gap_rows"
    /\ UNCHANGED <<rng_draws, error, hotspot, imagelist, cluster_of_interest,
                   image_selected, n_pages, image_selected_last,
                   image_between_selected, groups, name, group, page_nr,
                   image_selected_sample, image_sample, to_be_selected_txt,
                   user_image_selected, user_image_selected_sample, console,
                   folders, exports, call, ret>>

\* line 191: the rows of the document are exhausted
GapRowsDone ==
    /\ pc = "gap_rows"
    /\ row_i > Len(group)
    /\ pc' = "gap_groups"
    /\ UNCHANGED <<rng_draws, error, hotspot, imagelist, cluster_of_interest,
                   image_selected, n_pages, image_selected_last,
                   image_between_selected, groups, name, group, row_i,
                   page_nr_last, page_nr, image_selected_sample, image_sample,
                   to_be_selected_txt, user_image_selected,
                   user_image_selected_sample, console, folders, exports, call,
                   ret>>

-----------------------------------------------------------------------------
(* The script: samples, validation, results, user clusters (lines 212-286) *)

\* random.seed(1) (line 32) fixes the draws: what the first, the second and
\* the third call random.sample(range(1000), 1000) of a run return, in the
\* order drawn
SeededSamples ==
    <<
     <<
       137, 582, 867, 821, 782, 64, 261, 120, 507, 779, 460, 483, 667, 388,
       807, 214, 96, 499, 29, 914, 855, 399, 443, 622, 780, 785, 2, 712, 456,
       272, 738, 996, 234, 605, 104, 923, 325, 31, 22, 26, 665, 554, 9, 902,
       390, 702, 221, 432, 743, 981, 540, 227, 995, 448, 991, 566, 238, 353,
       236, 693, 224, 990, 470, 296, 961, 426, 857, 569, 657, 102, 190, 644,
       741, 880, 303, 123, 760, 340, 917, 969, 728, 512, 952, 519, 849, 686,
       194, 310, 290, 601, 903, 511, 866, 517, 402, 603, 873, 35, 491, 248,
       761, 816, 413, 424, 680, 177, 375, 561, 719, 794, 690, 755, 383, 88,
       449, 679, 520, 110, 797, 167, 533, 860, 905, 379, 501, 750, 30, 480,
       44, 315, 720, 868, 629, 607, 592, 403, 662, 174, 172, 514, 232, 12,
       789, 204, 552, 892, 237, 414, 526, 352, 591, 361, 937, 275, 675, 854,
       623, 746, 5, 392, 802, 758, 524, 828, 132, 531, 796, 574, 210, 436,
       57, 492, 373, 583, 567, 856, 516, 423, 496, 365, 896, 354, 1, 551,
       553, 638, 805, 627, 339, 469, 614, 28, 235, 650, 181, 563, 598, 185,
       93, 564, 993, 33, 689, 72, 85, 17, 463, 14, 772, 773, 287, 255, 846,
       112, 639, 189, 850, 297, 71, 171, 163, 799, 949, 861, 672, 279, 663,
       919, 301, 465, 891, 329, 508, 485, 116, 24, 319, 395, 351, 431, 192,
       264, 111, 259, 747, 522, 984, 620, 442, 21, 230, 18, 406, 149, 36,
       736, 164, 971, 721, 518, 694, 830, 557, 225, 645, 711, 528, 461, 228,
       536, 664, 962, 404, 691, 589, 328, 845, 646, 920, 60, 305, 128, 217,
       48, 313, 833, 78, 317, 769, 162, 934, 578, 258, 133, 8, 832, 38, 604,
       222, 826, 471, 175, 637, 521, 703, 387, 205, 355, 101, 831, 587, 977,
       966, 198, 504, 106, 681, 978, 925, 823, 908, 890, 333, 626, 411, 288,
       748, 160, 940, 335, 576, 138, 347, 439, 218, 970, 98, 986, 560, 783,
       547, 968, 545, 240, 66, 41, 86, 136, 173, 170, 898, 959, 274, 922,
       809, 740, 778, 376, 346, 348, 765, 298, 656, 618, 500, 668, 593, 800,
       684, 724, 40, 416, 74, 389, 150, 718, 349, 117, 910, 739, 713, 584,
       804, 229, 579, 83, 273, 827, 302, 577, 659, 976, 468, 283, 882, 46,
       611, 858, 792, 801, 822, 608, 997, 759, 245, 964, 165, 118, 732, 975,
       247, 710, 105, 445, 752, 555, 771, 617, 756, 488, 322, 930, 212, 963,
       597, 27, 10, 904, 327, 989, 400, 320, 408, 994, 65, 324, 466, 114,
       256, 220, 636, 872, 364, 265, 187, 958, 610, 314, 203, 252, 369, 735,
       933, 91, 458, 92, 987, 859, 682, 979, 42, 670, 191, 632, 912, 251,
       342, 103, 94, 250, 744, 20, 249, 723, 812, 647, 714, 76, 935, 573,
       947, 367, 505, 558, 157, 532, 513, 538, 619, 260, 486, 722, 886, 546,
       397, 754, 523, 420, 688, 938, 156, 54, 363, 263, 427, 847, 308, 625,
       944, 457, 881, 503, 774, 998, 549, 16, 541, 161, 502, 462, 763, 851,
       344, 464, 606, 430, 382, 942, 489, 506, 153, 953, 787, 80, 764, 820,
       441, 341, 126, 129, 398, 32, 843, 731, 897, 661, 281, 624, 277, 939,
       435, 467, 542, 841, 202, 428, 651, 87, 835, 900, 602, 888, 330, 213,
       292, 957, 791, 818, 813, 936, 70, 683, 901, 429, 793, 819, 141, 649,
       674, 671, 945, 715, 45, 119, 440, 3, 90, 270, 588, 844, 332, 450, 899,
       571, 374, 115, 122, 775, 253, 407, 595, 727, 737, 211, 776, 286, 312,
       372, 334, 140, 437, 786, 770, 745, 643, 676, 188, 81, 385, 965, 159,
       152, 921, 810, 282, 929, 84, 359, 840, 853, 304, 43, 63, 535, 658,
       885, 193, 455, 79, 452, 648, 757, 291, 960, 401, 640, 201, 326, 178,
       196, 476, 612, 278, 733, 268, 954, 130, 321, 51, 652, 539, 781, 870,
       654, 948, 924, 195, 907, 422, 377, 166, 825, 495, 318, 527, 108, 61,
       454, 307, 613, 209, 869, 151, 142, 127, 497, 394, 973, 97, 412, 630,
       474, 883, 15, 124, 706, 699, 419, 145, 75, 451, 708, 139, 876, 360,
       742, 653, 487, 182, 534, 215, 62, 631, 350, 380, 700, 55, 666, 660, 6,
       906, 972, 69, 695, 410, 537, 493, 223, 257, 357, 633, 0, 928, 226,
       749, 179, 982, 824, 875, 550, 829, 777, 677, 285, 817, 254, 338, 478,
       642, 184, 529, 784, 815, 186, 343, 50, 941, 865, 911, 927, 425, 946,
       405, 366, 884, 838, 368, 459, 158, 590, 135, 244, 544, 134, 345, 381,
       99, 148, 109, 878, 293, 568, 842, 559, 967, 837, 678, 915, 370, 267,
       635, 768, 525, 482, 446, 943, 530, 206, 39, 510, 199, 726, 299, 417,
       673, 154, 393, 89, 67, 594, 444, 698, 916, 77, 276, 242, 655, 734,
       233, 628, 988, 11, 197, 289, 25, 543, 730, 697, 362, 762, 168, 113,
       481, 811, 570, 336, 23, 814, 709, 913, 246, 53, 616, 231, 453, 795,
       68, 806, 19, 766, 834, 180, 176, 316, 893, 396, 685, 146, 894, 494,
       59, 100, 200, 871, 391, 183, 384, 56, 266, 421, 7, 615, 473, 331, 475,
       701, 311, 433, 634, 34, 585, 434, 509, 600, 874, 358, 207, 239, 169,
       974, 271, 371, 798, 58, 753, 641, 378, 729, 295, 955, 863, 477, 472,
       983, 895, 909, 621, 121, 356, 751, 515, 705, 13, 950, 294, 951, 889,
       284, 479, 926, 269, 143, 707, 704, 4, 548, 415, 999, 144, 956, 306,
       696, 82, 808, 95, 219, 562, 131, 243, 716, 879, 687, 599, 52, 409,
       438, 586, 37, 323, 556, 147, 418, 484, 447, 864, 580, 848, 877, 803,
       309, 669, 596, 717, 262, 565, 125, 73, 887, 216, 49, 918, 490, 386,
       300, 931, 839, 767, 107, 498, 980, 788, 992, 241, 572, 790, 862, 692,
       155, 581, 337, 985, 47, 725, 932, 609, 208, 575, 280, 836, 852
     >>,
     <<
       194, 28, 511, 652, 133, 762, 285, 703, 836, 865, 196, 678, 458, 399,
       337, 646, 274, 266, 657, 650, 248, 251, 61, 602, 957, 806, 604, 179,
       358, 438, 619, 714, 573, 653, 534, 62, 926, 361, 560, 422, 551, 204,
       728, 901, 549, 434, 941, 988, 71, 730, 273, 761, 625, 738, 770, 74,
       257, 181, 98, 154, 60, 208, 875, 970, 872, 45, 54, 996, 93, 832, 525,
       480, 513, 379, 101, 320, 41, 129, 544, 33, 453, 680, 131, 916, 404,
       781, 724, 903, 456, 25, 754, 537, 276, 92, 256, 819, 333, 87, 309, 35,
       880, 393, 59, 750, 267, 924, 752, 995, 982, 813, 389, 826, 119, 876,
       694, 311, 96, 435, 861, 978, 514, 570, 210, 338, 346, 521, 802, 400,
       598, 492, 107, 132, 668, 834, 459, 536, 572, 736, 854, 595, 718, 532,
       548, 30, 851, 298, 948, 160, 958, 963, 398, 533, 332, 99, 419, 353,
       922, 588, 66, 44, 307, 866, 818, 666, 546, 321, 427, 305, 326, 962,
       279, 912, 766, 827, 858, 927, 8, 538, 124, 152, 324, 744, 828, 803,
       335, 586, 70, 462, 286, 491, 465, 372, 759, 889, 80, 592, 57, 137, 49,
       864, 503, 589, 943, 899, 719, 587, 764, 937, 370, 658, 850, 412, 314,
       475, 612, 348, 921, 519, 171, 29, 151, 905, 992, 226, 576, 136, 115,
       189, 420, 745, 634, 51, 925, 558, 697, 272, 731, 109, 209, 895, 68,
       647, 584, 539, 656, 805, 944, 222, 790, 177, 523, 442, 22, 973, 376,
       498, 727, 290, 225, 205, 785, 505, 240, 882, 463, 691, 375, 557, 193,
       493, 753, 262, 417, 206, 823, 783, 974, 526, 837, 78, 413, 630, 522,
       804, 871, 862, 923, 360, 469, 6, 999, 306, 707, 981, 5, 553, 122, 956,
       524, 323, 556, 660, 585, 564, 289, 822, 421, 555, 530, 418, 617, 645,
       860, 315, 735, 702, 134, 518, 454, 600, 143, 563, 166, 258, 651, 9,
       954, 579, 37, 377, 430, 411, 288, 18, 906, 665, 4, 392, 275, 786, 278,
       381, 675, 870, 344, 397, 467, 887, 495, 363, 148, 425, 779, 991, 176,
       891, 945, 130, 603, 294, 960, 264, 722, 640, 669, 280, 443, 343, 497,
       220, 799, 867, 968, 931, 65, 868, 211, 153, 234, 26, 105, 259, 159,
       810, 767, 408, 191, 3, 91, 437, 52, 562, 223, 547, 432, 355, 48, 969,
       566, 429, 121, 271, 993, 183, 616, 641, 219, 89, 986, 126, 987, 301,
       520, 509, 402, 118, 490, 108, 820, 395, 726, 914, 848, 263, 426, 955,
       295, 504, 732, 593, 345, 631, 976, 725, 746, 949, 816, 704, 450, 839,
       103, 621, 794, 281, 907, 252, 693, 758, 892, 975, 199, 743, 897, 545,
       874, 581, 423, 692, 811, 687, 313, 696, 629, 878, 510, 643, 481, 247,
       792, 180, 185, 461, 622, 606, 516, 817, 138, 218, 322, 946, 540, 985,
       599, 642, 679, 550, 230, 90, 768, 667, 88, 350, 637, 773, 535, 102,
       797, 742, 682, 452, 157, 216, 167, 2, 396, 10, 771, 156, 950, 686,
       112, 43, 380, 114, 515, 784, 894, 440, 174, 873, 961, 368, 265, 709,
       11, 964, 168, 896, 951, 58, 128, 460, 394, 73, 484, 293, 21, 472, 39,
       47, 371, 609, 527, 162, 127, 928, 715, 910, 529, 15, 40, 471, 855,
       190, 478, 831, 844, 123, 594, 347, 473, 140, 663, 775, 164, 952, 734,
       628, 915, 328, 791, 64, 310, 749, 207, 46, 482, 967, 317, 990, 270,
       243, 571, 214, 983, 201, 940, 489, 700, 795, 699, 807, 27, 479, 260,
       56, 716, 748, 110, 893, 936, 829, 494, 711, 661, 575, 919, 683, 242,
       428, 672, 362, 53, 751, 613, 900, 815, 659, 451, 382, 284, 918, 618,
       508, 297, 561, 316, 499, 228, 349, 67, 79, 38, 296, 72, 531, 401, 825,
       578, 186, 149, 81, 445, 195, 741, 648, 939, 406, 729, 966, 552, 341,
       327, 684, 610, 580, 569, 329, 369, 476, 287, 997, 235, 374, 221, 708,
       721, 141, 772, 853, 354, 833, 236, 407, 50, 241, 19, 0, 685, 431, 300,
       448, 898, 405, 182, 282, 965, 502, 583, 391, 125, 777, 933, 339, 596,
       971, 507, 20, 852, 701, 812, 843, 998, 935, 212, 192, 930, 150, 577,
       565, 517, 477, 466, 733, 291, 470, 879, 814, 487, 249, 597, 474, 698,
       245, 869, 989, 403, 203, 116, 886, 455, 830, 439, 364, 543, 904, 331,
       554, 846, 383, 312, 447, 977, 769, 774, 416, 32, 367, 739, 883, 106,
       444, 676, 710, 568, 605, 737, 424, 117, 415, 250, 170, 706, 388, 938,
       334, 528, 233, 662, 623, 979, 947, 632, 757, 615, 342, 911, 433, 188,
       202, 789, 681, 178, 100, 1, 139, 740, 63, 582, 449, 169, 934, 902,
       330, 908, 244, 198, 717, 142, 713, 840, 239, 359, 705, 917, 55, 994,
       633, 654, 624, 386, 441, 972, 881, 688, 755, 542, 859, 857, 639, 670,
       932, 856, 145, 627, 12, 261, 747, 485, 24, 175, 308, 277, 446, 213,
       796, 690, 357, 217, 318, 778, 42, 913, 34, 268, 304, 255, 486, 237,
       689, 847, 158, 187, 173, 845, 590, 842, 664, 283, 841, 155, 574, 838,
       414, 86, 36, 591, 782, 390, 885, 953, 254, 161, 215, 942, 760, 16,
       821, 253, 541, 500, 674, 863, 351, 614, 607, 269, 69, 352, 611, 299,
       888, 17, 890, 800, 325, 980, 113, 385, 909, 776, 644, 85, 7, 723, 436,
       373, 387, 224, 655, 75, 76, 765, 135, 506, 788, 146, 763, 626, 512,
       231, 638, 104, 501, 172, 120, 197, 984, 756, 409, 97, 671, 464, 677,
       824, 620, 303, 144, 365, 94, 636, 232, 84, 246, 567, 23, 410, 608,
       559, 340, 95, 801, 302, 147, 601, 877, 483, 793, 229, 378, 673, 336,
       13, 695, 808, 720, 649, 77, 238, 884, 780, 366, 227, 356, 929, 165,
       787, 835, 457, 488, 31, 849, 959, 920, 111, 184, 635, 496, 384, 809,
       319, 83, 82, 468, 798, 712, 163, 292, 200, 14
     >>,
     <<
       100, 685, 850, 853, 132, 191, 572, 16, 464, 771, 45, 500, 219, 403,
       842, 747, 551, 985, 946, 344, 929, 249, 96, 78, 694, 764, 43, 866,
       432, 996, 452, 193, 177, 609, 514, 194, 867, 521, 394, 534, 369, 201,
       238, 368, 674, 898, 600, 775, 795, 66, 349, 927, 53, 469, 989, 854,
       625, 181, 912, 151, 874, 928, 292, 480, 44, 597, 513, 950, 886, 855,
       579, 405, 94, 409, 815, 524, 862, 586, 661, 308, 986, 274, 360, 481,
       50, 565, 892, 488, 17, 437, 311, 602, 766, 324, 814, 152, 610, 603,
       569, 871, 284, 67, 885, 621, 806, 809, 794, 959, 425, 400, 532, 894,
       24, 589, 595, 116, 37, 587, 542, 14, 103, 340, 980, 377, 768, 564, 35,
       652, 379, 596, 75, 496, 649, 85, 552, 456, 342, 512, 829, 557, 3, 164,
       332, 913, 987, 149, 594, 940, 902, 110, 413, 906, 520, 430, 841, 956,
       949, 266, 623, 876, 38, 728, 64, 785, 645, 252, 888, 271, 772, 406,
       563, 290, 882, 804, 633, 972, 76, 725, 174, 273, 423, 824, 129, 289,
       939, 743, 656, 269, 240, 215, 101, 283, 739, 491, 48, 755, 924, 920,
       208, 556, 823, 861, 323, 347, 303, 528, 136, 36, 969, 372, 765, 839,
       29, 797, 427, 767, 167, 570, 41, 723, 908, 718, 679, 644, 538, 434,
       188, 202, 957, 117, 601, 133, 953, 518, 125, 738, 272, 981, 958, 56,
       856, 467, 863, 629, 740, 363, 225, 650, 9, 880, 988, 33, 168, 259,
       914, 40, 751, 235, 86, 536, 967, 873, 540, 205, 214, 453, 295, 248,
       502, 907, 380, 857, 401, 669, 869, 199, 608, 185, 192, 700, 638, 304,
       897, 436, 628, 485, 790, 23, 499, 21, 107, 955, 640, 591, 680, 634,
       442, 870, 351, 796, 822, 662, 846, 724, 526, 506, 622, 577, 676, 798,
       933, 489, 614, 931, 460, 618, 482, 169, 918, 537, 802, 576, 938, 896,
       865, 265, 261, 317, 15, 619, 46, 468, 668, 364, 237, 847, 454, 735,
       487, 343, 707, 148, 393, 447, 55, 113, 666, 8, 673, 554, 655, 313,
       387, 671, 838, 346, 316, 851, 915, 213, 83, 336, 122, 954, 131, 301,
       419, 693, 348, 990, 27, 187, 516, 827, 374, 309, 300, 647, 697, 539,
       472, 699, 203, 417, 665, 973, 246, 229, 978, 404, 388, 810, 155, 306,
       844, 1, 314, 663, 509, 821, 944, 31, 900, 813, 567, 350, 525, 501,
       325, 114, 299, 561, 282, 439, 11, 318, 88, 503, 770, 689, 753, 832,
       702, 381, 236, 963, 104, 527, 695, 523, 166, 995, 686, 49, 69, 223,
       859, 63, 433, 710, 636, 760, 905, 974, 550, 720, 878, 19, 860, 216,
       936, 204, 763, 302, 960, 257, 239, 715, 780, 890, 61, 244, 463, 792,
       339, 334, 416, 637, 992, 189, 517, 95, 530, 925, 230, 180, 909, 999,
       60, 321, 599, 837, 734, 153, 575, 935, 293, 352, 59, 704, 945, 226,
       102, 830, 884, 553, 948, 620, 787, 879, 756, 382, 713, 511, 965, 921,
       402, 415, 729, 112, 549, 146, 365, 817, 812, 555, 446, 127, 759, 531,
       370, 128, 391, 99, 901, 179, 182, 232, 477, 692, 337, 444, 315, 195,
       703, 752, 197, 769, 218, 789, 891, 459, 250, 449, 175, 91, 624, 835,
       58, 889, 883, 395, 408, 571, 141, 547, 607, 171, 386, 458, 993, 209,
       233, 186, 803, 161, 831, 241, 651, 872, 922, 65, 154, 741, 836, 828,
       730, 280, 653, 497, 799, 818, 234, 330, 664, 77, 745, 82, 744, 648,
       486, 120, 473, 533, 774, 87, 445, 242, 158, 39, 930, 976, 281, 435,
       593, 574, 79, 970, 677, 800, 392, 893, 245, 820, 911, 712, 371, 98,
       791, 407, 376, 881, 746, 942, 544, 492, 504, 994, 455, 545, 731, 582,
       721, 688, 138, 642, 709, 598, 126, 443, 783, 288, 206, 998, 184, 25,
       118, 658, 291, 690, 522, 566, 849, 590, 773, 840, 793, 72, 639, 505,
       788, 159, 580, 431, 260, 276, 307, 277, 221, 224, 297, 262, 243, 93,
       328, 895, 843, 331, 864, 919, 105, 581, 757, 68, 106, 10, 341, 732,
       722, 605, 354, 355, 42, 121, 108, 495, 979, 786, 383, 84, 294, 983,
       111, 471, 632, 626, 18, 26, 378, 255, 286, 178, 991, 611, 34, 719,
       163, 338, 162, 462, 613, 173, 212, 826, 134, 32, 165, 298, 92, 359,
       115, 160, 275, 926, 156, 816, 678, 6, 150, 410, 923, 887, 868, 220,
       256, 615, 708, 961, 71, 779, 196, 270, 777, 144, 361, 147, 672, 917,
       428, 172, 778, 412, 479, 90, 258, 833, 457, 875, 190, 145, 358, 483,
       631, 616, 714, 535, 659, 123, 612, 62, 667, 716, 808, 562, 20, 429,
       762, 399, 568, 982, 470, 448, 222, 474, 335, 670, 617, 687, 279, 934,
       683, 508, 389, 498, 320, 782, 143, 698, 951, 333, 852, 899, 966, 13,
       964, 310, 515, 490, 962, 176, 441, 682, 139, 414, 22, 654, 910, 227,
       781, 285, 784, 585, 326, 801, 426, 543, 475, 356, 450, 2, 952, 375,
       253, 646, 322, 465, 130, 947, 507, 119, 362, 80, 559, 390, 588, 845,
       748, 726, 135, 398, 727, 109, 345, 584, 627, 657, 217, 210, 267, 52,
       327, 737, 604, 573, 397, 548, 157, 54, 805, 278, 736, 971, 247, 510,
       635, 493, 558, 57, 733, 643, 776, 142, 758, 937, 706, 421, 578, 461,
       12, 997, 811, 385, 494, 641, 384, 200, 848, 932, 684, 4, 438, 742, 89,
       312, 424, 476, 943, 858, 373, 825, 170, 701, 705, 251, 7, 691, 70,
       592, 357, 411, 97, 231, 367, 761, 319, 807, 941, 819, 754, 211, 560,
       681, 353, 329, 529, 420, 711, 478, 47, 30, 451, 263, 541, 606, 81, 74,
       466, 198, 750, 717, 660, 305, 877, 137, 904, 396, 124, 975, 140, 264,
       287, 630, 546, 0, 484, 207, 422, 440, 749, 418, 228, 834, 968, 51, 5,
       696, 903, 268, 73, 675, 984, 519, 28, 183, 977, 583, 296, 254, 366,
       916
     >>
    >>

\* the position lists random.sample(range(n), k) can return, k <= n, after
\* the draws made so far (the population size of each). The first draws of
\* 1000 out of 1000 are the seeded ones; any other draw is left open: k
\* different positions in any order
RandomSample(n, k, drawn) ==
    IF /\ n = SampleSize /\ k = SampleSize
       /\ Len(drawn) < Len(SeededSamples)
       /\ \A i \in 1..Len(drawn) : drawn[i] = SampleSize
    THEN {SeededSamples[Len(drawn) + 1]}
    ELSE {q \in [1..k -> 0..(n - 1)] :
             \A i, j \in 1..k : i # j => q[i] # q[j]}

\* df.iloc[<positions>]: the rows in the order drawn
SampleRows(df, positions) == Iloc(df, positions)

\* lines 212-221: the filenames of the gap records and their copies
CopyBetweenSelected ==
    /\ pc = "gap_groups"
    /\ groups = <<>>
    /\ image_between_selected' =
           WithColumn(image_between_selected, "filename",
               Eager([k \in 1..Len(image_between_selected) |->
                   get_filename(image_between_selected[k].doc_title,
                                image_between_selected[k].page_nr)]))
    /\ \E positions \in (IF Len(image_between_selected) > SampleSize
                         THEN RandomSample(Len(image_between_selected),
                                           SampleSize, rng_draws)
                         ELSE {<<>>}) :
          LET copied == IF Len(image_between_selected) > SampleSize
                        THEN SampleRows(image_between_selected', positions)
                        ELSE image_between_selected'
          IN  /\ rng_draws' = IF Len(image_between_selected) > SampleSize
                              THEN Append(rng_draws,
                                          Len(image_between_selected))
                              ELSE rng_draws
              /\ Copy(BetweenSelectedDir, copied, imagelist,
                      "sample_selected")
    /\ UNCHANGED <<hotspot, imagelist, cluster_of_interest, image_selected,
                   n_pages, image_selected_last, groups, name, group, row_i,
                   page_nr_last, page_nr, image_selected_sample, image_sample,
                   to_be_selected_txt, user_image_selected,
                   user_image_selected_sample, console, exports, call, ret>>

\* lines 229-233: random.sample raises ValueError on a sample larger than the population
SampleSelected ==
    /\ pc = "sample_selected"
    /\ IF SampleSize > Len(image_selected)
       THEN /\ Abort("ValueError")
            /\ UNCHANGED <<image_selected_sample, folders, rng_draws>>
       ELSE \E positions \in RandomSample(Len(image_selected), SampleSize,
                                          rng_draws) :
                /\ rng_draws' = Append(rng_draws, Len(image_selected))
                /\ image_selected_sample' = SampleRows(image_selected, positions)
                /\ Copy(SelectedSampleDir, image_selected_sample', imagelist,
                        "sample_images")
    /\ UNCHANGED <<hotspot, imagelist, cluster_of_interest, image_selected,
                   n_pages, image_selected_last, image_between_selected,
                   groups, name, group, row_i, page_nr_last, page_nr,
                   image_sample, to_be_selected_txt, user_image_selected,
                   user_image_selected_sample, console, exports, call, ret>>

\* lines 241-245
SampleImagelist ==
    /\ pc = "sample_images"
    /\ IF SampleSize > Len(imagelist)
       THEN /\ Abort("ValueError")
            /\ UNCHANGED <<image_sample, folders, rng_draws>>
       ELSE \E positions \in RandomSample(Len(imagelist), SampleSize,
                                          rng_draws) :
                /\ rng_draws' = Append(rng_draws, Len(imagelist))
                /\ image_sample' = SampleRows(imagelist, positions)
                /\ Copy(RandomSampleDir, image_sample', imagelist,
                        "validate")
    /\ UNCHANGED <<hotspot, imagelist, cluster_of_interest, image_selected,
                   n_pages, image_selected_last, image_between_selected,
                   groups, name, group, row_i, page_nr_last, page_nr,
                   image_selected_sample, to_be_selected_txt,
                   user_image_selected, user_image_selected_sample, console,
                   exports, call, ret>>

\* the four outcomes of validate_result
Outcomes == {"correct selected", "wrong selected", "wrong not selected",
             "correct not selected"}

\* what <random_sample>/to_be_selected.txt can hold: nothing (no file), a table
\* with the header filename, a table with another header
GroundTruthFiles(il) ==
    LET first == il[1].filename
    IN  {[status |-> "absent", rows |-> <<>>],
         [status |-> "read", rows |-> <<>>],
         [status |-> "read", rows |-> <<[filename |-> first]>>],
         [status |-> "read", rows |-> <<[filename |-> first],
                                        [filename |-> S(NoiseFile)]>>]}

\* variant of lines 248-253 without the try: a missing to_be_selected.txt
\* ends the run
Validate_Uncaught ==
    /\ pc = "validate"
    /\ to_be_selected_txt' = [status |-> "absent", rows |-> <<>>]
    /\ Abort("FileNotFoundError")
    /\ UNCHANGED <<rng_draws, hotspot, imagelist, cluster_of_interest,
                   image_selected, n_pages, image_selected_last,
                   image_between_selected, groups, name, group, row_i,
                   page_nr_last, page_nr, image_selected_sample, image_sample,
                   user_image_selected, user_image_selected_sample, console,
                   folders, exports, call, ret>>

\* lines 248-253: read_table of a missing file raises inside the try; the
\* except prints the notice
Validate ==
    /\ pc = "validate"
    /\ \E file \in GroundTruthFiles(imagelist) :
          /\ to_be_selected_txt' = file
          /\ IF file.status = "read"
             THEN /\ image_sample' =
                      WithColumn(image_sample, "validation",
                          Eager([k \in 1..Len(image_sample) |->
                              validate_result(image_sample[k].filename,
                                              image_selected, file.rows)]))
                  /\ console' = Append(console,
                         [msg |-> "validation result",
                          tally |-> [o \in Outcomes |->
                              Cardinality({k \in 1..Len(image_sample') :
                                  image_sample'[k].validation = S(o)})]])
             ELSE /\ console' = Append(console,
                         [msg |-> "please create to_be_selected.txt"])
                  /\ UNCHANGED image_sample
    /\ pc' = "write"
    /\ UNCHANGED <<rng_draws, error, hotspot, imagelist, cluster_of_interest,
                   image_selected, n_pages, image_selected_last,
                   image_between_selected, groups, name, group, row_i,
                   page_nr_last, page_nr, image_selected_sample,
                   user_image_selected, user_image_selected_sample, folders,
                   exports, call, ret>>

\* lines 261-263
WriteResults ==
    /\ pc = "write"
    /\ exports' = ("imagelist.csv" :> imagelist)
                  @@ ("image_selected.csv" :> image_selected)
                  @@ ("image_sample.csv" :> image_sample)
    /\ pc' = "user"
    /\ UNCHANGED <<rng_draws, error, hotspot, imagelist, cluster_of_interest,
                   image_selected, n_pages, image_selected_last,
                   image_between_selected, groups, name, group, row_i,
                   page_nr_last, page_nr, image_selected_sample, image_sample,
                   to_be_selected_txt, user_image_selected,
                   user_image_selected_sample, console, folders, call, ret>>

user_cluster_of_interest == <<"Brandlagerbuecher">>

\* what user_hotspots.json can hold for an image list of n images
UserHotspots(n) ==
    {<<[label |-> "Brandlagerbuecher", images |-> Eager([k \in 1..n |-> k - 1])]>>,
     <<[label |-> "Brandlagerbuecher", images |-> <<0, n - 1>>]>>,
     <<[label |-> "Urkunden", images |-> Eager([k \in 1..n |-> k - 1])]>>}

\* lines 270-286 (path_user_hotspot is set)
AnalyzeUserClusters ==
    /\ pc = "user"
    /\ \E user_hotspot \in UserHotspots(Len(imagelist)) :
          LET r == get_selected_images(user_hotspot, imagelist,
                                       user_cluster_of_interest)
          IN  IF r.raised # "none"
              THEN /\ Abort(r.raised)
                   /\ UNCHANGED <<user_image_selected,
                                  user_image_selected_sample, folders,
                                  exports, rng_draws>>
              ELSE /\ user_image_selected' = r.value
                   /\ IF SampleSize > Len(user_image_selected')
                      THEN /\ Abort("ValueError")
                           /\ UNCHANGED <<user_image_selected_sample, folders,
                                          exports, rng_draws>>
                      ELSE \E positions \in
                               RandomSample(Len(user_image_selected'),
                                            SampleSize, rng_draws) :
                             /\ rng_draws' = Append(rng_draws,
                                                    Len(user_image_selected'))
                             /\ user_image_selected_sample' =
                                    SampleRows(user_image_selected', positions)
                             /\ Copy(SelectedSampleUserDir,
                                     user_image_selected_sample', imagelist,
                                     "done")
                             /\ exports' =
                                    IF CopyRaises(user_image_selected_sample',
                                                  imagelist)
                                    THEN exports
                                    ELSE ("image_selected_user.csv"
                                            :> user_image_selected') @@ exports
    /\ UNCHANGED <<hotspot, imagelist, cluster_of_interest, image_selected,
                   n_pages, image_selected_last, image_between_selected,
                   groups, name, group, row_i, page_nr_last, page_nr,
                   image_selected_sample, image_sample, to_be_selected_txt,
                   console, call, ret>>

Next ==
    \/ IdentifySelectedImages
    \/ DetectLastPage
    \/ BeginGapDetection
    \/ GapGroupStart
    \/ GapRow
    \/ GapWhileBody
    \/ GapWhileExit
    \/ GapRowsDone
    \/ CopyBetweenSelected
    \/ SampleSelected
    \/ SampleImagelist
    \/ Validate
    \/ WriteResults
    \/ AnalyzeUserClusters

Spec == Init /\ [][Next]_vars

-----------------------------------------------------------------------------
(* Properties of get_selected_images (SpecResolve) *)

\* the call of get_selected_images has returned a selection
Resolved ==
    /\ pc = "returned"
    /\ call.fn = "get_selected_images"
    /\ ret.raised = "none"

\* the first cluster of the clustering result that carries the label
FirstCluster(hs, label) ==
    hs[SetMin({i \in 1..Len(hs) : hs[i].label = label})]

\* C1: the selection lists its images in the order of their
\* positions in the image list, whatever the order of the indices inside the
\* clusters (image list [a, b, c, d] and cluster indices [3, 0] give [a, d]).
C1_SelectionInImageListOrder ==
    Resolved =>
        \A k, l \in 1..Len(ret.value) :
            k < l => ret.value[k].idx <= ret.value[l].idx

\* C2: when every label of interest is carried by a cluster, the selection
\* holds every image whose index is in one of those clusters at most once,
\* every selected image is an image of the image list, and no selected image
\* lies outside the clusters of interest.
C2_SelectionWithoutDuplicates ==
    (Resolved /\ \A j, l \in 1..Len(call.cluster_of_interest) :
                    j # l => call.cluster_of_interest[j]
                                # call.cluster_of_interest[l]) =>
        /\ \A k, l \in 1..Len(ret.value) :
              k # l => ret.value[k].filename # ret.value[l].filename
        /\ \A k \in 1..Len(ret.value) :
              /\ \E i \in 1..Len(call.imagelist) :
                    call.imagelist[i] = ret.value[k]
              /\ \E j \in 1..Len(call.cluster_of_interest) :
                    LET images == FirstCluster(call.hotspot,
                                      call.cluster_of_interest[j]).images
                    IN  \E o \in 1..Len(images) : images[o] = ret.value[k].idx

-----------------------------------------------------------------------------
(* Properties of validate_result (SpecValidate) *)

\* the filenames a frame lists
FilenamesOf(df) == {df[k].filename : k \in 1..Len(df)}

\* C7: validate_result classifies a sample image by two memberships, in the
\* selection and in the ground truth: in both -> 'correct selected', in the
\* selection only -> 'wrong selected', in the ground truth only -> 'wrong not
\* selected', in neither -> 'correct not selected'.
C7_ValidateByMembership ==
    (pc = "returned" /\ call.fn = "validate_result") =>
        LET inSelection == call.filename \in FilenamesOf(call.image_selected)
            inTruth == call.filename \in FilenamesOf(call.to_be_selected)
        IN  /\ (inSelection /\ inTruth) => ret = S("correct selected")
            /\ (inSelection /\ ~inTruth) => ret = S("wrong selected")
            /\ (~inSelection /\ inTruth) => ret = S("wrong not selected")
            /\ (~inSelection /\ ~inTruth) => ret = S("correct not selected")

\* an image of the ground truth that was not selected is 'wrong not selected'
C7_Witness ==
    /\ pc = "returned" /\ call.fn = "validate_result"
    /\ call.filename \notin FilenamesOf(call.image_selected)
    /\ call.filename \in FilenamesOf(call.to_be_selected)
    /\ call.image_selected # <<>>
    /\ ret = S("wrong not selected")

-----------------------------------------------------------------------------
(* Properties of get_filename (SpecFilename) *)

\* C9: get_filename returns the document title, an underscore, the page
\* number zero-padded to three digits and '.jpg' when both inputs are given,
\* and returns None when the document title or the page number is missing.
C9_FilenameAbsentWhenInputMissing ==
    (pc = "returned" /\ call.fn = "get_filename") =>
        /\ (call.doc_title = None \/ call.page_nr = None) => ret = None
        /\ (call.doc_title.t = "str" /\ call.page_nr.t = "int"
                /\ call.page_nr.v <= 999) =>
              ret = S(call.doc_title.v
                      \o <<"_", Digits[(call.page_nr.v \div 100) + 1],
                           Digits[((call.page_nr.v \div 10) % 10) + 1],
                           Digits[(call.page_nr.v % 10) + 1],
                           ".", "j", "p", "g">>)

-----------------------------------------------------------------------------
(* Properties of the script (Spec) *)

\* a label of interest that no cluster of the clustering result carries
UnknownLabel ==
    \E j \in 1..Len(cluster_of_interest) :
        \A i \in 1..Len(hotspot) : hotspot[i].label # cluster_of_interest[j]

\* C4: when a label of interest is carried by no cluster of the clustering
\* result, resolving the selection fails with an error at line 136 and the
\* run ends there: no selection is produced, nothing is printed, copied or
\* written, and no later step runs.
C4_UnknownLabelAborts ==
    UnknownLabel =>
        /\ pc \in {"identify", "aborted"}
        /\ pc = "aborted" => error = "IndexError"
        /\ image_selected = <<>> /\ image_selected_last = <<>>
        /\ console = <<>> /\ exports = <<>>
        /\ \A d \in Destinations : folders[d] = {}

\* a run whose clustering result lacks 'Cluster 9' has ended with the error
C4_Witness ==
    /\ UnknownLabel
    /\ \E i \in 1..Len(hotspot) : hotspot[i].label = "Cluster 8"
    /\ pc = "aborted" /\ error = "IndexError"
    /\ image_selected = <<>>

\* the largest page number the image list holds for the document of a title
DocumentLength(title) ==
    SetMax({imagelist[i].page_nr.v : i \in
               {i \in 1..Len(imagelist) : /\ imagelist[i].doc_title = title
                                          /\ IsNumber(imagelist[i].page_nr)}})

\* a selected record of the last page of its document
OnLastPage(row) ==
    /\ get_doc_title(row.filename) # None
    /\ get_page_nr(row.filename) # None
    /\ get_page_nr(row.filename).v
          = DocumentLength(get_doc_title(row.filename))

\* C8: once the last pages are detected, the last-page subset is exactly the
\* set of selected records that have a document title and a page number and
\* whose page number equals the largest page number the FULL image list holds
\* for that document; a document whose last page is not selected contributes
\* nothing.
C8_LastPagesOfFullImageList ==
    pc = "between" =>
        {image_selected_last[k] : k \in 1..Len(image_selected_last)}
            = {image_selected[k] : k \in
                  {k \in 1..Len(image_selected) : OnLastPage(image_selected[k])}}

\* pages 3, 1 and 4 of a document of pages 0..4 are selected: the subset is
\* the record of page 4
C8_Witness ==
    /\ pc = "between"
    /\ Len(imagelist) = 5 /\ DocumentLength(S(TitleA)) = 4
    /\ Len(image_selected) = 3
    /\ image_selected[1].page_nr = I(3)
    /\ image_selected[2].page_nr = I(1)
    /\ image_selected[3].page_nr = I(4)
    /\ image_selected_last = <<image_selected[3]>>

\* the walk over the selected pages of the document `name` is complete
GroupFinished == pc = "gap_rows" /\ row_i > Len(group)

\* the selected pages of the document are numbers, each selected once
DistinctPages ==
    /\ \A k \in 1..Len(group) : IsNumber(group[k].page_nr)
    /\ \A k, l \in 1..Len(group) :
          k # l => group[k].page_nr.v # group[l].page_nr.v

\* C3: for a document whose selected page numbers (0..999) are distinct, the
\* gap records the walk emits for it are, in ascending order and each once,
\* exactly the integers strictly between the smallest and the largest
\* selected page that are not selected themselves; a single page or
\* consecutive pages give none.
C3_GapsAreTheMissingPages ==
    (GroupFinished /\ DistinctPages) =>
        LET pages == {group[k].page_nr.v : k \in 1..Len(group)}
            missing == {g \in SetMin(pages)..SetMax(pages) : g \notin pages}
            emitted == SelectSeq(image_between_selected,
                                 LAMBDA r : r.doc_title = name)
        IN  /\ Len(emitted) = Cardinality(missing)
            /\ \A k \in 1..Len(emitted) :
                  /\ IsNumber(emitted[k].page_nr)
                  /\ emitted[k].page_nr.v = Ascending(missing)[k]

\* the sample of the selection has been drawn
SelectionSampled ==
    pc \in {"sample_images", "validate", "write", "user", "done"}

\* C5: a sampling step whose population holds at most 1000 records succeeds
\* and returns every record of the population (a selection of 3 images gives
\* a selection sample of those 3 images); no run ends on a sampling error.
C5_SmallPopulationSampledWhole ==
    /\ error # "ValueError"
    /\ (SelectionSampled /\ Len(image_selected) <= SampleSize) =>
          {image_selected_sample[k] : k \in 1..Len(image_selected_sample)}
              = {image_selected[k] : k \in 1..Len(image_selected)}

\* C10: the gap detection ends on every input, also when a document has a
\* page selected twice or a selected record with a title and no page number:
\* whenever the while loop of lines 205-208 runs, its counter is a number not
\* beyond the current page, so that counting up by one reaches the current
\* page and leaves the loop.
C10_GapWalkReachesCurrentPage ==
    pc = "gap_while" =>
        /\ IsNumber(page_nr)
        /\ IsNumber(group[row_i].page_nr)
        /\ page_nr.v <= group[row_i].page_nr.v

\* <random_sample>/to_be_selected.txt was looked for and is not there
GroundTruthAbsent == to_be_selected_txt.status = "absent"

Printed(m) == \E k \in 1..Len(console) : console[k].msg = m

ThreeExports ==
    {"imagelist.csv", "image_selected.csv", "image_sample.csv"}
        \subseteq DOMAIN exports

\* C6: a missing ground-truth file is not fatal. The validation step prints
\* the notice asking for to_be_selected.txt and no tally, the sample gets no
\* validation column, the run does not end at the validation step or while
\* writing, the three csv files are written before the user hotspot is read,
\* and the pass over the user hotspot is the step that follows.
C6_MissingGroundTruthIsNotFatal ==
    GroundTruthAbsent =>
        /\ Printed("please create to_be_selected.txt")
        /\ ~Printed("validation result")
        /\ ~HasColumn(image_sample, "validation")
        /\ pc \in {"write", "user", "done", "aborted"}
        /\ pc = "write" => ENABLED WriteResults
        /\ pc \in {"user", "done", "aborted"} => ThreeExports
        /\ pc = "user" => ENABLED AnalyzeUserClusters

\* a run without to_be_selected.txt has written all four csv files
C6_Witness ==
    /\ GroundTruthAbsent
    /\ pc = "done"
    /\ ThreeExports
    /\ "image_selected_user.csv" \in DOMAIN exports
    /\ Printed("please create to_be_selected.txt")

=============================================================================
